---- MODULE Spec2Model ----
(***************************************************************************)
(* Model of the singly linked queue of rodrigoo-r/linked_queue             *)
(* (library.h: linked_queue_init / next / append / prepend).               *)
(*                                                                         *)
(* The heap is a finite set of node addresses; every node has the four     *)
(* members of linked_queue_t.  `head` is the caller's head pointer, the    *)
(* variable whose address is handed to linked_queue_next and               *)
(* linked_queue_prepend.  `history` and `ret` are ghost variables: the     *)
(* calls that took effect and the outcome of the last call.                *)
(***************************************************************************)
EXTENDS Integers, Sequences, FiniteSets, TLC

\* ---------------------------------------------------------------- bounds
MaxNodes == 4          \* number of addresses malloc can hand out
MaxVal   == 2          \* payload values are 0..MaxVal
MaxOps   == 4          \* calls recorded in history
MaxReleases == 2       \* calls of the release routine on one queue
MaxBuild == 3          \* calls recorded before a release in SpecFree
VisitCap == 2          \* the ghost count of free() calls on a node saturates here

\* size_t is an unsigned type of at least 16 bits: arithmetic is modulo 2^16
SIZE_MODULUS == 65536

NULL  == 0
Nodes == 1..MaxNodes
Ptrs  == Nodes \cup {NULL}
Data  == 0..MaxVal

VARIABLES
    head,      \* the caller's head pointer (NULL or a node)
    data,      \* node -> payload                (linked_queue_t.data)
    next,      \* node -> pointer                (linked_queue_t.next)
    tail,      \* node -> pointer                (linked_queue_t.tail)
    size,      \* node -> 0..SIZE_MODULUS-1      (linked_queue_t.size)
    live,      \* nodes allocated and not freed
    status,    \* "running", or "crashed" once the process has faulted
    ub,        \* ghost: undefined behaviour has been executed
    ret,       \* ghost: the last call and its outcome
    history,   \* ghost: the calls that took effect, oldest first
    pc,        \* "idle", or the release loop a call is in: "free_lib", "free_macro"
    current,   \* the local `current` of the release routine
    visits,    \* ghost: node -> free() calls on it by the release routine (saturating)
    releases,  \* ghost: calls of the release routine that entered the loop
    extra,     \* ghost: the node allocated by the last macro-generated release
    arg        \* ghost: what the last call was given as its queue

queueVars == <<head, data, next, tail, size, live, status, ub, ret, history>>
freeVars  == <<pc, current, visits, releases, extra>>
vars == <<head, data, next, tail, size, live, status, ub, ret, history,
          pc, current, visits, releases, extra, arg>>

\* What a call is given: the caller's queue ("queue": head, or &head for the
\* functions that take linked_queue_t **), a NULL head or a pointer to a NULL
\* head ("null_head"), or a NULL linked_queue_t ** ("null_ptr").
HeadArgs == {"queue", "null_head"}
PtrArgs  == {"queue", "null_head", "null_ptr"}

\* the guard `!head` of append and free, `!head || !*head` of next and prepend
NoQueue(a) == a # "queue" \/ head = NULL

\* variant: the guard returns TRUE
NoQueueResultTrue == TRUE

\* the value append and prepend return from that guard
NoQueueResult == FALSE

\* ------------------------------------------------------------ the chain
RECURSIVE ChainFrom(_, _)
\* nodes reached from p through next, p first; fuel stops a cyclic walk
ChainFrom(p, fuel) ==
    IF p = NULL \/ fuel = 0 THEN <<>>
    ELSE <<p>> \o ChainFrom(next[p], fuel - 1)

Chain == ChainFrom(head, MaxNodes + 1)

ChainLen == Len(Chain)

\* payloads read by walking the chain from the head through next
Walk == [i \in 1..Len(Chain) |-> data[Chain[i]]]

ChainSet == {Chain[i] : i \in 1..Len(Chain)}

LastNode == IF Chain = <<>> THEN NULL ELSE Chain[Len(Chain)]

\* the guard of the documented consumption loop, negated
IsEmpty == head = NULL \/ size[head] = 0

\* the call returned FALSE to its caller; only linked_queue_append and
\* linked_queue_prepend return a value, linked_queue_next and the release
\* routines return void
Reports(r) == r.op \in {"append", "prepend"} /\ ~r.ok

\* ---------------------------------------------------------------- ghosts
Rec(op, val, node) == [op |-> op, val |-> val, node |-> node]

RECURSIVE Filter(_, _)
Filter(s, op) ==
    IF s = <<>> THEN <<>>
    ELSE IF Head(s).op = op THEN <<Head(s)>> \o Filter(Tail(s), op)
         ELSE Filter(Tail(s), op)

Vals(s) == [i \in 1..Len(s) |-> s[i].val]

RECURSIVE Reverse(_)
Reverse(s) == IF s = <<>> THEN <<>> ELSE Reverse(Tail(s)) \o <<Head(s)>>

Appended  == Vals(Filter(history, "append"))    \* values appended, in order
Prepended == Vals(Filter(history, "prepend"))   \* values prepended, in order
Yielded   == Vals(Filter(history, "next"))      \* head payloads read before each advance

\* ------------------------------------------------------------ operations
\* malloc returns a fresh address or NULL
MallocResults == (Nodes \ live) \cup {NULL}

\* linked_queue_init: field values of an initialised node
InitData == NULL
InitNext == NULL
InitTail == NULL
InitSize == 0

Init ==
    /\ head = 1
    /\ data = [n \in Nodes |-> InitData]
    /\ next = [n \in Nodes |-> InitNext]
    /\ tail = [n \in Nodes |-> InitTail]
    /\ size = [n \in Nodes |-> InitSize]
    /\ live = {1}
    /\ status = "running"
    /\ ub = FALSE
    /\ ret = [op |-> "init", ok |-> TRUE]
    /\ history = <<>>
    /\ pc = "idle"
    /\ current = NULL
    /\ visits = [n \in Nodes |-> 0]
    /\ releases = 0
    /\ extra = NULL
    /\ arg = "queue"

\* variant: prepend leaves the new node's tail as initialised
PrependTailNone(h) == NULL

\* new tail member of the node that becomes head in linked_queue_prepend
PrependTail(h) == tail[h]

\* variant: the size hint is moved to the new node without the increment
PrependSizeKept(h) == size[h]

\* new size member of the node that becomes head in linked_queue_prepend
PrependSize(h) == (size[h] + 1) % SIZE_MODULUS

\* variant: the old head keeps its size hint
PrependOldSizeKept(h) == size[h]

\* tail and size left on the old head by linked_queue_prepend
PrependOldTail(h) == NULL
PrependOldSize(h) == 0

\* variant: the head is made its own tail before the allocation is checked
AppendNoMemTailSelf(h) == IF tail[h] = NULL THEN h ELSE tail[h]

\* tail member of the head when malloc failed in linked_queue_append: the
\* function returns before it looks at head->tail
AppendNoMemTail(h) == tail[h]

\* the node linked_queue_append links the new node after
AppendAfter(h) == IF tail[h] = NULL THEN h ELSE tail[h]

\* variant: the size hint is relocated without the decrement
NextSizeKept(h) == size[h]

\* size relocated to the next node by linked_queue_next
NextSize(h) == (size[h] - 1) % SIZE_MODULUS

\* variant: the successor is taken for the tail
NextTailSuccessor(h) == next[h]

\* tail relocated to the next node by linked_queue_next
NextTail(h) == tail[h]

linked_queue_append(a, v) ==
    /\ status = "running"
    /\ pc = "idle"
    /\ UNCHANGED freeVars
    /\ arg' = a
    /\ IF NoQueue(a)
       THEN /\ ret' = [op |-> "append", ok |-> NoQueueResult]
            /\ UNCHANGED <<head, data, next, tail, size, live, status, ub, history>>
       ELSE \E n \in MallocResults :
            IF n = NULL
            THEN /\ ret' = [op |-> "append", ok |-> FALSE]
                 /\ tail' = [tail EXCEPT ![head] = AppendNoMemTail(head)]
                 /\ UNCHANGED <<head, data, next, size, live, status, ub, history>>
            ELSE /\ Len(history) < MaxOps
                 /\ LET t == AppendAfter(head) IN
                    /\ data' = [data EXCEPT ![n] = v]
                    /\ next' = [[next EXCEPT ![n] = InitNext] EXCEPT ![t] = n]
                    /\ tail' = [[tail EXCEPT ![n] = InitTail] EXCEPT ![head] = n]
                    /\ size' = [[size EXCEPT ![n] = InitSize]
                                   EXCEPT ![head] = (@ + 1) % SIZE_MODULUS]
                 /\ live' = live \cup {n}
                 /\ ret' = [op |-> "append", ok |-> TRUE]
                 /\ history' = Append(history, Rec("append", v, n))
                 /\ UNCHANGED <<head, status, ub>>

linked_queue_prepend(a, v) ==
    /\ status = "running"
    /\ pc = "idle"
    /\ UNCHANGED freeVars
    /\ arg' = a
    /\ IF NoQueue(a)
       THEN /\ ret' = [op |-> "prepend", ok |-> NoQueueResult]
            /\ UNCHANGED <<head, data, next, tail, size, live, status, ub, history>>
       ELSE \E n \in MallocResults :
            IF n = NULL
            THEN /\ ret' = [op |-> "prepend", ok |-> FALSE]
                 /\ UNCHANGED <<head, data, next, tail, size, live, status, ub, history>>
            ELSE /\ Len(history) < MaxOps
                 /\ data' = [data EXCEPT ![n] = v]
                 /\ tail' = [[tail EXCEPT ![n] = PrependTail(head)]
                                EXCEPT ![head] = PrependOldTail(head)]
                 /\ size' = [[size EXCEPT ![n] = PrependSize(head)]
                                EXCEPT ![head] = PrependOldSize(head)]
                 /\ next' = [next EXCEPT ![n] = head]
                 /\ head' = n
                 /\ live' = live \cup {n}
                 /\ ret' = [op |-> "prepend", ok |-> TRUE]
                 /\ history' = Append(history, Rec("prepend", v, n))
                 /\ UNCHANGED <<status, ub>>

linked_queue_next(a) ==
    /\ status = "running"
    /\ pc = "idle"
    /\ UNCHANGED freeVars
    /\ arg' = a
    /\ IF NoQueue(a)
       THEN /\ ret' = [op |-> "next", ok |-> FALSE]
            /\ UNCHANGED <<head, data, next, tail, size, live, status, ub, history>>
       ELSE /\ Len(history) < MaxOps
            /\ history' = Append(history, Rec("next", data[head], head))
            /\ IF next[head] # NULL
               THEN LET next_node == next[head] IN
                    /\ size' = [size EXCEPT ![next_node] = NextSize(head)]
                    /\ tail' = [tail EXCEPT ![next_node] = NextTail(head)]
                    /\ live' = live \ {head}
                    /\ head' = next_node
                    /\ ret' = [op |-> "next", ok |-> TRUE]
                    /\ UNCHANGED <<data, next, status, ub>>
               ELSE \* next_node is NULL: the two stores go through a null
                    \* pointer.  Either the process faults, or the stores
                    \* land nowhere and the call runs on to free and *head.
                    /\ ub' = TRUE
                    /\ ret' = [op |-> "next", ok |-> FALSE]
                    /\ \/ /\ status' = "crashed"
                          /\ UNCHANGED <<head, data, next, tail, size, live>>
                       \/ /\ live' = live \ {head}
                          /\ head' = NULL
                          /\ UNCHANGED <<data, next, tail, size, status>>

Next ==
    \/ \E v \in Data : linked_queue_append("queue", v)
    \/ \E v \in Data : linked_queue_prepend("queue", v)
    \/ linked_queue_next("queue")

Spec == Init /\ [][Next]_vars

\* ------------------------------------------------------------- release
\* Two release routines are in the sources: linked_queue_free of library.h
\* ("free_lib") and linked_<NAME>_queue_free generated by DEFINE_LINKED_QUEUE
\* ("free_macro").  Both get the head by value, so the caller's head pointer
\* keeps its value when they return.
Impls == {"free_lib", "free_macro"}

\* variant: the macro-generated routine without its extra allocation
FreeEntryNoAlloc(impl) == {[live |-> live, current |-> head, pc |-> impl]}

\* what a release routine can be left with when it is entered with a
\* non-NULL head: the nodes live, its local `current`, and where it stands
FreeEntry(impl) ==
    IF impl = "free_lib"
    THEN {[live |-> live, current |-> head, pc |-> "free_lib"]}
    ELSE {[live |-> live \cup {n}, current |-> head, pc |-> "free_macro"]
              : n \in MallocResults \ {NULL}}
         \cup (IF NULL \in MallocResults
               THEN {[live |-> live, current |-> NULL, pc |-> "idle"]}
               ELSE {})

\* the value of `current` at the end of one iteration of the release loop
FreeAdvance(impl, cur, next_node) ==
    IF impl = "free_lib" THEN next_node ELSE cur

Bump(n) == [visits EXCEPT ![n] = IF @ < VisitCap THEN @ + 1 ELSE @]

\* entry of a release routine, up to its loop
FreeCall(impl, a) ==
    /\ status = "running"
    /\ pc = "idle"
    /\ arg' = a
    /\ ret' = [op |-> "free", ok |-> ~NoQueue(a)]
    /\ UNCHANGED <<head, data, next, tail, size, status, ub, history, visits>>
    /\ IF NoQueue(a)
       THEN UNCHANGED <<live, pc, current, releases, extra>>
       ELSE /\ releases < MaxReleases
            /\ \E e \in FreeEntry(impl) :
                  /\ live' = e.live
                  /\ extra' = IF impl = "free_lib" THEN extra
                              ELSE IF e.live = live THEN NULL
                              ELSE CHOOSE n \in e.live : n \notin live
                  /\ current' = e.current
                  /\ pc' = e.pc
                  /\ releases' = IF e.pc = "idle" THEN releases ELSE releases + 1

\* one evaluation of the loop condition and, if it holds, one iteration
FreeIter ==
    /\ status = "running"
    /\ pc \in Impls
    /\ UNCHANGED <<head, data, next, tail, size, ret, history, releases, extra, arg>>
    /\ IF current = NULL
       THEN /\ pc' = "idle"
            /\ UNCHANGED <<live, status, ub, current, visits>>
       ELSE IF current \in live
       THEN /\ live' = live \ {current}
            /\ visits' = Bump(current)
            /\ current' = FreeAdvance(pc, current, next[current])
            /\ UNCHANGED <<pc, status, ub>>
       ELSE \* current has been freed: current->next reads released memory
            \* and free(current) releases it again.  Either the process
            \* faults, or the released memory still holds what the node
            \* held and the loop goes on with it.
            /\ ub' = TRUE
            /\ visits' = Bump(current)
            /\ UNCHANGED <<live, pc>>
            /\ \/ /\ status' = "crashed"
                  /\ UNCHANGED current
               \/ /\ current' = FreeAdvance(pc, current, next[current])
                  /\ UNCHANGED status

NextFree ==
    \/ /\ releases = 0
       /\ Len(history) < MaxBuild
       /\ Next
    \/ \E impl \in Impls : FreeCall(impl, "queue")
    \/ FreeIter

SpecFree == Init /\ [][NextFree]_vars

\* the same calls, made with or without a queue
NextArgs ==
    \/ /\ releases = 0
       /\ Len(history) < MaxBuild
       /\ \/ \E a \in HeadArgs, v \in Data : linked_queue_append(a, v)
          \/ \E a \in PtrArgs, v \in Data : linked_queue_prepend(a, v)
          \/ \E a \in PtrArgs : linked_queue_next(a)
    \/ \E impl \in Impls, a \in HeadArgs : FreeCall(impl, a)
    \/ FreeIter

SpecArgs == Init /\ [][NextArgs]_vars

\* ------------------------------------------------------ model soundness
TypeOK ==
    /\ head \in Ptrs
    /\ data \in [Nodes -> Data]
    /\ next \in [Nodes -> Ptrs]
    /\ tail \in [Nodes -> Ptrs]
    /\ size \in [Nodes -> 0..(SIZE_MODULUS - 1)]
    /\ live \subseteq Nodes
    /\ status \in {"running", "crashed"}
    /\ ub \in BOOLEAN
    /\ pc \in {"idle", "free_lib", "free_macro"}
    /\ current \in Ptrs
    /\ visits \in [Nodes -> 0..VisitCap]
    /\ releases \in 0..MaxReleases
    /\ extra \in Ptrs
    /\ arg \in PtrArgs
    /\ Len(history) <= MaxOps

\* every pointer the operations follow from the head designates a live node
NoDangling ==
    /\ head # NULL => head \in live
    /\ head # NULL /\ tail[head] # NULL => tail[head] \in live
    /\ ChainSet \subseteq live
    /\ ChainLen <= MaxNodes

\* ---------------------------------------------------------------- claims
OnlyOps(ops) == \A i \in 1..Len(history) : history[i].op \in ops

\* history is n appends followed by n advances
AppendsThenNexts(n) ==
    /\ Len(history) = 2 * n
    /\ \A i \in 1..n : history[i].op = "append"
    /\ \A i \in (n + 1)..(2 * n) : history[i].op = "next"

HistoryIs(ops) ==
    /\ Len(history) = Len(ops)
    /\ \A i \in 1..Len(ops) : history[i].op = ops[i][1] /\ history[i].val = ops[i][2]

\* C1: after n >= 0 successful appends on a freshly initialised head the
\* chain reachable from the head has exactly n nodes and walking it through
\* next reads the appended values in append order.
C1_AppendsBuildChain ==
    OnlyOps({"append"}) =>
        /\ ChainLen = Len(Appended)
        /\ Walk = Appended

\* C2: on a queue built from n >= 1 appends, n advances that read the head's
\* value before each call yield the n values in append order, every call is
\* well defined, and the queue is empty after the n-th call.
C2_FifoRoundTrip ==
    \A n \in 1..MaxOps :
        AppendsThenNexts(n) =>
            /\ Yielded = Appended
            /\ ~ub
            /\ IsEmpty

\* C3: after any interleaving of successful appends and prepends the walk
\* from the head reads the prepended values in reverse prepend order and
\* then the appended values in append order; append 1, append 2, prepend 0
\* reads <<0, 1, 2>> and one advance then leaves <<1, 2>>.
C3_InterleavedOrder ==
    /\ OnlyOps({"append", "prepend"}) => Walk = Reverse(Prepended) \o Appended
    /\ HistoryIs(<< <<"append", 1>>, <<"append", 2>>, <<"prepend", 0>> >>)
          => Walk = <<0, 1, 2>>
    /\ HistoryIs(<< <<"append", 1>>, <<"append", 2>>, <<"prepend", 0>>, <<"next", 0>> >>)
          => Walk = <<1, 2>>

\* C4: after n >= 1 successful prepends on a freshly initialised head the
\* chain has exactly n nodes and the head's value is the value prepended last.
C4_PrependsBuildChain ==
    (OnlyOps({"prepend"}) /\ Len(history) >= 1) =>
        /\ ChainLen = Len(Prepended)
        /\ data[head] = Prepended[Len(Prepended)]

\* C5: in every reachable state the size member of the current head equals
\* the number of nodes reachable from the head through next, head included.
C5_SizeIsChainLength ==
    head # NULL => size[head] = ChainLen

\* the step is a call of op that took effect
Step(op) ==
    /\ Len(history') = Len(history) + 1
    /\ history'[Len(history')].op = op

Did(op) == \E i \in 1..Len(history) : history[i].op = op

\* the node allocated by the last append that took effect
LastAppendedNode ==
    LET a == Filter(history, "append") IN
    IF a = <<>> THEN NULL ELSE a[Len(a)].node

\* C6: in every reachable state, a tail member of the current head that is
\* set points to the last node of the head's chain, the one whose next is NULL.
C6_TailIsLastNode ==
    (head # NULL /\ tail[head] # NULL) =>
        /\ tail[head] = LastNode
        /\ next[tail[head]] = NULL

C6_Witness ==
    /\ Did("append") /\ Did("prepend") /\ Did("next")
    /\ head # NULL /\ tail[head] # NULL /\ tail[head] # head
    /\ ChainLen >= 3

C8_PrependCarriesMetadata ==
    [][Step("prepend") =>
          /\ head' = history'[Len(history')].node
          /\ next'[head'] = head
          /\ size'[head'] = size[head] + 1
          /\ tail'[head'] = IF IsEmpty THEN head' ELSE LastNode]_vars

\* C9: linked_queue_prepend does not update tail or size: the old head keeps
\* its tail and size and the new node has the values of linked_queue_init.
C9_PrependLeavesMetadata ==
    [][Step("prepend") =>
          /\ tail'[head] = tail[head]
          /\ size'[head] = size[head]
          /\ tail'[head'] = InitTail
          /\ size'[head'] = InitSize]_vars

\* C10: an advance of a head that has a successor releases the old head,
\* makes the successor the head with the old head's cached tail and the old
\* count minus 1, and changes no node's data or next link.
C10_AdvanceRelocates ==
    [][(Step("next") /\ next[head] # NULL) =>
          /\ live' = live \ {head}
          /\ head' = next[head]
          /\ tail'[head'] = tail[head]
          /\ size'[head'] = size[head] - 1
          /\ data' = data
          /\ next' = next]_vars

C10_Witness ==
    /\ ret = [op |-> "next", ok |-> TRUE]
    /\ history # <<>>
    /\ history[Len(history)].op = "next"
    /\ history[Len(history)].node \notin live
    /\ head # NULL /\ size[head] >= 1 /\ tail[head] # NULL

\* the step is a call of op, whether or not it took effect
Called(op) == ret'.op = op /\ (ret' # ret \/ history' # history)

\* nodes the release loop has still to visit
Remaining == Len(ChainFrom(current, MaxNodes + 1))

\* C11: an advance of a head that is the last node (next is NULL) leaves the
\* queue empty (head becomes NULL) and writes through no null pointer.
C11_AdvanceLastNode ==
    [][(Step("next") /\ next[head] = NULL) =>
          /\ head' = NULL
          /\ ~ub'
          /\ status' = "running"]_vars

\* C12: an advance of an empty queue reports an error to the caller and
\* leaves the queue empty and unchanged.
C12_AdvanceEmptyFails ==
    [][(Called("next") /\ IsEmpty) =>
          /\ Reports(ret')
          /\ ~ub'
          /\ IsEmpty'
          /\ UNCHANGED <<head, data, next, tail, size, live, status>>]_vars

\* C13: when the allocation fails inside append or prepend the call returns
\* FALSE and head, every node's data, next, tail and size and the set of
\* allocated nodes are as before the call.
C13_AllocFailureLeavesQueue ==
    [][((Called("append") \/ Called("prepend")) /\ head # NULL /\ ~ret'.ok) =>
          /\ Reports(ret')
          /\ UNCHANGED <<head, data, next, tail, size, live, status, ub>>]_vars

C13_Witness ==
    /\ ret = [op |-> "append", ok |-> FALSE]
    /\ head # NULL
    /\ live # Nodes
    /\ ChainLen >= 2

\* C14: a release of a chain of n >= 1 nodes releases every node reachable
\* from the given head exactly once and reads no node after its release.
C14_ReleaseOnce ==
    releases = 1 =>
        /\ ~ub
        /\ \A n \in Nodes : visits[n] <= 1
        /\ pc = "idle" => \A n \in ChainSet : visits[n] = 1 /\ n \notin live

\* C15: a release with no queue is a no-op, and a second release right after
\* the first one releases nothing: no node is released twice and no released
\* node is read.
C15_ReleaseTwice ==
    [][/\ (Called("free") /\ head = NULL) => UNCHANGED <<live, pc, current, visits>>
       /\ releases' = 2 => (~ub' /\ live \subseteq live' /\ \A n \in Nodes : visits'[n] <= 1)]_vars

\* C16: a release returns after visiting each node once: every iteration of
\* its loop moves on to a node not yet visited, so the number of nodes still
\* to visit decreases with each iteration.
C16_ReleaseTerminates ==
    [][(pc \in Impls /\ current # NULL) =>
          /\ Remaining' < Remaining
          /\ visits'[current] = 1]_vars

\* C17: n >= 1 appends followed by n advances leave the queue empty with
\* every appended node released and no allocated node unreachable.
C17_NoLeakAfterDrain ==
    \A n \in 1..MaxOps :
        AppendsThenNexts(n) =>
            /\ IsEmpty
            /\ \A i \in 1..n : history[i].node \notin live
            /\ live \subseteq ChainSet

\* C18: every operation is defined in every reachable state: no null
\* dereference, no use of a released node, no double release, and between
\* calls the queue is empty or a chain of allocated nodes.
C18_OperationsTotal ==
    /\ ~ub
    /\ status = "running"
    /\ pc = "idle" => (head = NULL \/ (head \in live /\ ChainSet \subseteq live))

C20_SameRelease ==
    (pc = "idle" /\ head # NULL /\ status = "running") =>
        /\ {<<e.live, e.current>> : e \in FreeEntry("free_lib")}
              = {<<e.live, e.current>> : e \in FreeEntry("free_macro")}
        /\ \A n \in ChainSet :
              FreeAdvance("free_lib", n, next[n]) = FreeAdvance("free_macro", n, next[n])

\* history is n appends followed by k advances
AppendsThenKNexts(n, k) ==
    /\ Len(history) = n + k
    /\ \A i \in 1..n : history[i].op = "append"
    /\ \A i \in (n + 1)..(n + k) : history[i].op = "next"

\* C21: the count never goes below zero: linked_queue_next never computes
\* size - 1 on a head whose size is 0, and after n advances from a queue of
\* n appended elements the head count is exactly 0.
C21_CountNeverWraps ==
    [][/\ Step("next") => size[head] > 0
       /\ \A n \in 1..MaxOps : AppendsThenNexts(n)' => size'[head'] = 0]_vars

C23_DocumentedLoop ==
    \A n \in 0..MaxOps : \A k \in 0..n :
        AppendsThenKNexts(n, k) =>
            /\ (size[head] > 0) <=> (k < n)
            /\ k = n => Yielded = Appended

\* C24: a call made without a queue (NULL head, NULL head pointer or a
\* pointer to a NULL head) changes nothing: no node is allocated, released or
\* modified, and append and prepend return FALSE.
C24_NoQueueNoOp ==
    [][(pc = "idle" /\ (arg' # "queue" \/ head = NULL)) =>
          /\ UNCHANGED <<head, data, next, tail, size, live, status, ub, history,
                         pc, current, visits, releases, extra>>
          /\ ret'.op \in {"append", "prepend"} => ~ret'.ok]_vars

C24_Witness ==
    /\ arg = "null_head"
    /\ ret.op = "free"
    /\ pc = "idle"
    /\ releases = 0
    /\ head \in live
    /\ ChainLen >= 2

C26_PositiveSizeHasNext ==
    (head # NULL /\ size[head] > 0) => next[head] # NULL

\* C27: no node is orphaned: every allocated node is reachable from the head
\* through next, and append only writes the next member of a node whose next
\* was NULL.
C27_NoOrphans ==
    [][/\ Step("append") => next[AppendAfter(head)] = NULL
       /\ live' \subseteq ChainSet']_vars

====
